---- MODULE Spec2Model ----
(***************************************************************************)
(* Model of the telemetry hooks class (InternalHooksClass) and of the      *)
(* editor's pin-data validation mixin (pinData).                           *)
(*                                                                         *)
(* JavaScript values are represented as follows.  An optional value (one   *)
(* that may be undefined or null) is a sequence of length 0 or 1: None is  *)
(* undefined, Some(x) is x.  An object whose key set varies is a function  *)
(* whose DOMAIN is the set of keys present.  A string that is inspected    *)
(* character by character is a sequence of one-character strings.          *)
(***************************************************************************)
EXTENDS Integers, Sequences, FiniteSets, TLC

VARIABLES
    \* ---- onWorkflowPostExecute -------------------------------------------
    args,        \* arguments of the latest call (None before the first call)
    issued,      \* calls made on telemetry / BinaryDataManager, in order
    settled,     \* settled[i]: state of the promise returned by issued[i]
    returned,    \* state of the promise onWorkflowPostExecute returned
    console,     \* lines written by console.log during the call
    \* ---- onN8nStop ---------------------------------------------------------
    now,         \* milliseconds elapsed since onN8nStop was called
    timeoutPromise,  \* "none" | "pending" | "resolved"
    trackStop,       \* promise of telemetry.trackN8nStop()
    stopReturned,    \* promise returned by onN8nStop
    \* ---- onUserDeletion / onPersonalizationSurveySubmitted -----------------
    hookArgs,    \* arguments of the latest user hook call
    tracked,     \* sequence of [event, payload] given to telemetry.track
    \* ---- pinData mixin -----------------------------------------------------
    pinDataSize, \* $store.getters['pinDataSize']
    pinCall,     \* latest method call of the mixin and its argument
    pinResult,   \* its return value
    shownErrors  \* titles given to $showError during the call

postVars == <<args, issued, settled, returned, console>>
stopVars == <<now, timeoutPromise, trackStop, stopReturned>>
userVars == <<hookArgs, tracked>>
pinVars  == <<pinDataSize, pinCall, pinResult, shownErrors>>
vars     == <<postVars, stopVars, userVars, pinVars>>

-----------------------------------------------------------------------------
(* JavaScript values *)

None == <<>>
Some(x) == <<x>>

\* Truthiness of an optional string: undefined and '' are falsy.
TruthyStr(o) == o # None /\ o[1] # ""

\* Truthiness of an optional boolean: undefined and false are falsy.
TruthyBool(o) == o # None /\ o[1]

\* obj[key] = value on an object modelled as a function.
SetKey(obj, key, value) == (key :> value) @@ obj

\* obj[key] where a missing key reads as undefined; values are optionals.
GetOpt(obj, key) == IF key \in DOMAIN obj THEN obj[key] ELSE None

SeqsUpTo(S, n) == UNION {[1..k -> S] : k \in 0..n}

-----------------------------------------------------------------------------
(* Bounds *)

MaxNodes == 2      \* nodes of a workflow
MaxAnswers == 2    \* answers of a personalization survey
MaxLen == 4        \* characters of a pin-data string
MaxTicks == 32     \* clock ticks observed after onN8nStop
TickMs == 125      \* milliseconds per clock tick

-----------------------------------------------------------------------------
(* Inputs of onWorkflowPostExecute *)

NodeNames == {"A", "B"}
WEBHOOK_NODE_TYPE == "n8n-nodes-base.webhook"
NodeTypes == {"n8n-nodes-base.set", WEBHOOK_NODE_TYPE}
Nodes == [name : NodeNames, type : NodeTypes]

\* Node names are unique within a workflow.
UniqueNames(nodes) ==
    \A i, j \in DOMAIN nodes : nodes[i].name = nodes[j].name => i = j

\* workflow.id is optional; the empty id is falsy like the missing one.
WorkflowIds == {None, Some(""), Some("w1")}
Workflows ==
    {[id |-> i, nodes |-> ns] :
        i \in WorkflowIds,
        ns \in {q \in SeqsUpTo(Nodes, MaxNodes) : UniqueNames(q)}}

UserIds == {None, Some("u1")}
ExecutionIds == {"e1"}

\* resultData.error: an ExecutionError with a message and, optionally, a node.
ErrorNodes ==
    {[name |-> "A", type |-> "n8n-nodes-base.set"],
     [name |-> "B", type |-> WEBHOOK_NODE_TYPE]}
Errors ==
    {None} \cup {Some([message |-> "boom", node |-> n]) :
                    n \in {None} \cup {Some(x) : x \in ErrorNodes}}

\* resultData.runData[nodeName]: undefined, or an array of ITaskData whose
\* data is undefined or { main: [...] } / {} (main missing); main[0] is
\* null or an array of items.
Item == [json |-> [headers |-> "host"]]
TaskLists ==
    { None,
      Some(<<[data |-> None]>>),
      Some(<<[data |-> Some([main |-> None])]>>),
      Some(<<[data |-> Some([main |-> Some(<<None>>)])]>>),
      Some(<<[data |-> Some([main |-> Some(<<Some(<<>>)>>)])]>>),
      Some(<<[data |-> Some([main |-> Some(<<Some(<<Item>>)>>)])]>> ) }

\* Every node of the run carries task data of the same shape.
ResultRunDatas == {[n \in NodeNames |-> t] : t \in TaskLists}

StartDatas ==
    {None, Some([destinationNode |-> None]), Some([destinationNode |-> Some("A")])}

RunDatas ==
    {None} \cup
    {Some([mode |-> m, finished |-> f,
           data |-> [startData |-> sd,
                     resultData |-> [error |-> e, lastNodeExecuted |-> l,
                                     runData |-> rd]]]) :
        m \in {"manual", "trigger"},
        f \in {None, Some(FALSE), Some(TRUE)},
        sd \in StartDatas,
        e \in Errors,
        l \in {None} \cup {Some(n) : n \in NodeNames},
        rd \in ResultRunDatas}

VersionCli == "0.185.0"

-----------------------------------------------------------------------------
(* TelemetryHelpers (package n8n-workflow) *)

\* The first node of the workflow with the given name, or undefined.
getNodeTypeForName(workflow, nodeName) ==
    LET hits == {i \in DOMAIN workflow.nodes : workflow.nodes[i].name = nodeName}
    IN  IF hits = {} THEN None
        ELSE Some(workflow.nodes[CHOOSE i \in hits : \A j \in hits : i <= j])

\* nodeGraph lists the node types, nameIndices maps every node name to the
\* index of the node, webhookNodeName names the workflow's webhook node.
generateNodesGraph(workflow) ==
    LET nodes == workflow.nodes
        last(S) == CHOOSE i \in S : \A j \in S : j <= i
        hooks == {i \in DOMAIN nodes : nodes[i].type = WEBHOOK_NODE_TYPE}
    IN  [nodeGraph |-> [node_types |-> [i \in DOMAIN nodes |-> nodes[i].type]],
         nameIndices |->
            [n \in {nodes[i].name : i \in DOMAIN nodes} |->
                last({i \in DOMAIN nodes : nodes[i].name = n}) - 1],
         webhookNodeName |->
            IF hooks = {} THEN None ELSE Some(nodes[last(hooks)].name)]

\* JSON.stringify of a node graph, as a sequence of tokens.
Stringify(nodeGraph) ==
    <<"{", "node_types", ":", "[">> \o nodeGraph.node_types \o <<"]", "}">>

\* nameIndices[name]; undefined when the name is not a key.
IndexOf(nameIndices, name) ==
    IF name \in DOMAIN nameIndices THEN Some(nameIndices[name]) ELSE None

-----------------------------------------------------------------------------
(* InternalHooksClass.onWorkflowPostExecute *)

\* Mutant: only a missing id returns early, an empty one does not.
HasWorkflowIdDefinedOnly(workflow) == workflow.id # None

\* if (!workflow.id) return Promise.resolve();
HasWorkflowId(workflow) == TruthyStr(workflow.id)

\* The initial properties, with user_id when a userId is given.
BaseProperties(workflow, userId) ==
    LET base == [workflow_id |-> workflow.id[1], is_manual |-> FALSE,
                 version_cli |-> VersionCli, success |-> FALSE]
    IN  IF TruthyStr(userId) THEN SetKey(base, "user_id", userId[1]) ELSE base

\* Mutant: success is "finished is set" instead of "finished is truthy".
SuccessWhenSet(run) == run.finished # None

\* properties.success = !!runData.finished
Success(run) == TruthyBool(run.finished)

\* properties.is_manual = runData.mode === 'manual'
IsManual(run) == run.mode = "manual"

\* Mutant: the last executed node never replaces error.node.
ErrorNodeOfErrorOnly(workflow, run) ==
    LET error == run.data.resultData.error[1]
    IN  IF error.node = None
        THEN [name |-> None, type |-> None]
        ELSE [name |-> Some(error.node[1].name), type |-> Some(error.node[1].type)]

\* The node the error is reported for: error.node, replaced by the last
\* executed node when lastNodeExecuted names a node of the workflow.
ErrorNode(workflow, run) ==
    LET error == run.data.resultData.error[1]
        last == run.data.resultData.lastNodeExecuted
        ofError == IF error.node = None
                   THEN [name |-> None, type |-> None]
                   ELSE [name |-> Some(error.node[1].name),
                         type |-> Some(error.node[1].type)]
        lastNode == IF TruthyStr(last)
                    THEN getNodeTypeForName(workflow, last[1]) ELSE None
    IN  IF lastNode # None
        THEN [name |-> Some(lastNode[1].name), type |-> Some(lastNode[1].type)]
        ELSE ofError

\* The block run for a failed execution that has resultData.error.
ErrorProperties(workflow, run, properties) ==
    LET node == ErrorNode(workflow, run)
        p1 == SetKey(properties, "error_message",
                     Some(run.data.resultData.error[1].message))
        p2 == SetKey(p1, "error_node_type", node.type)
        graph == generateNodesGraph(workflow)
        p3 == SetKey(p2, "node_graph", Some(graph.nodeGraph))
        p4 == SetKey(p3, "node_graph_string", Some(Stringify(graph.nodeGraph)))
        p5 == IF TruthyStr(node.name)
              THEN SetKey(p4, "error_node_id",
                          IndexOf(graph.nameIndices, node.name[1]))
              ELSE p4
    IN  IF p2["is_manual"] THEN p5 ELSE p2

\* The properties handed to telemetry.trackWorkflowExecution.
ExecutionProperties(workflow, runData, userId) ==
    LET p0 == BaseProperties(workflow, userId)
    IN  IF runData = None THEN p0
        ELSE LET run == runData[1]
                 p1 == SetKey(SetKey(SetKey(p0, "execution_mode", run.mode),
                                     "success", Success(run)),
                              "is_manual", IsManual(run))
             IN  IF ~p1["success"] /\ run.data.resultData.error # None
                 THEN ErrorProperties(workflow, run, p1)
                 ELSE p1

\* manualExecEventProperties, with the node graph generated when the
\* properties carry none.
ManualExecEventProperties(workflow, properties) ==
    LET graph == generateNodesGraph(workflow)
        copied == [workflow_id |-> workflow.id[1],
                   status |-> IF properties["success"] THEN "success" ELSE "failed",
                   error_message |-> GetOpt(properties, "error_message"),
                   error_node_type |-> GetOpt(properties, "error_node_type"),
                   node_graph |-> GetOpt(properties, "node_graph"),
                   node_graph_string |-> GetOpt(properties, "node_graph_string"),
                   error_node_id |-> GetOpt(properties, "error_node_id")]
    IN  IF copied.node_graph = None
        THEN [copied EXCEPT !.node_graph = Some(graph.nodeGraph),
                            !.node_graph_string = Some(Stringify(graph.nodeGraph))]
        ELSE copied

\* The read of the webhook node's first output item and the console.log
\* calls around it.  threw: a TypeError was raised by a property access on
\* undefined.
WebhookProbe(run, webhookNodeName) ==
    LET tasks == run.data.resultData.runData[webhookNodeName]
        AB == <<"A", "B">>
        throws(log) == [threw |-> TRUE, console |-> log]
        passes(log) == [threw |-> FALSE, console |-> log]
    IN  IF tasks = None THEN throws(AB)                  \* undefined[0]
        ELSE IF Len(tasks[1]) = 0 THEN throws(AB)        \* undefined.data
        ELSE LET data == tasks[1][1].data
             IN  IF data = None THEN passes(AB)          \* data?.  is undefined
                 ELSE IF data[1].main = None THEN throws(AB)   \* undefined[0]
                 ELSE LET main == data[1].main[1]
                      IN  IF Len(main) = 0 THEN passes(AB)     \* md undefined
                          ELSE IF main[1] = None THEN passes(AB)   \* md null
                          ELSE IF Len(main[1][1]) = 0
                               THEN throws(AB \o <<"C">>)      \* undefined.json
                               ELSE passes(AB \o <<"C", main[1][1][1].json.headers>>)

TrackCall(event, props) == [fn |-> "track", event |-> event, props |-> props]

\* The branch taken for a manual run: the manual-execution event to track.
ManualEvent(workflow, run, properties) ==
    LET graph == generateNodesGraph(workflow)
        props == ManualExecEventProperties(workflow, properties)
        sd == run.data.startData
        dest == IF sd = None THEN None ELSE sd[1].destinationNode
        destNode == getNodeTypeForName(workflow, dest[1])
        nodeProps ==
            ("node_type" :> (IF destNode = None THEN None ELSE Some(destNode[1].type)))
            @@ ("node_id" :> IndexOf(graph.nameIndices, dest[1]))
            @@ props
        probe == IF graph.webhookNodeName = None
                 THEN [threw |-> FALSE, console |-> <<"A">>]
                 ELSE WebhookProbe(run, graph.webhookNodeName[1])
    IN  IF TruthyStr(dest)
        THEN [threw |-> FALSE, console |-> <<>>,
              calls |-> <<TrackCall("Manual node exec finished", nodeProps)>>]
        ELSE IF probe.threw
        THEN [threw |-> TRUE, console |-> probe.console, calls |-> <<>>]
        ELSE [threw |-> FALSE, console |-> probe.console,
              calls |-> <<TrackCall("Manual workflow exec finished", props)>>]

\* The synchronous part of onWorkflowPostExecute: what it logs, the calls it
\* issues (the promises given to Promise.all, in order) and whether it
\* returns early or throws.
PostExecuteBody(executionId, workflow, runData, userId) ==
    LET properties == ExecutionProperties(workflow, runData, userId)
        manual == IF runData # None /\ properties["is_manual"]
                  THEN ManualEvent(workflow, runData[1], properties)
                  ELSE [threw |-> FALSE, console |-> <<>>, calls |-> <<>>]
        tail == << [fn |-> "persistBinaryDataForExecutionId", event |-> "",
                    props |-> [executionId |-> executionId]],
                   [fn |-> "trackWorkflowExecution", event |-> "",
                    props |-> properties] >>
    IN  IF ~HasWorkflowId(workflow)
        THEN [outcome |-> "resolved", console |-> <<>>, calls |-> <<>>]
        ELSE IF manual.threw
        THEN [outcome |-> "rejected", console |-> manual.console, calls |-> <<>>]
        ELSE [outcome |-> "pending", console |-> manual.console,
              calls |-> manual.calls \o tail]

\* Promise.all over the issued promises: rejected as soon as one rejects,
\* resolved when all have resolved.
PromiseAll(states) ==
    IF \E i \in DOMAIN states : states[i] = "rejected" THEN "rejected"
    ELSE IF \A i \in DOMAIN states : states[i] = "resolved" THEN "resolved"
    ELSE "pending"

\* The hook keeps no state between calls: one call is followed to its end.
onWorkflowPostExecute(executionId, workflow, runData, userId) ==
    /\ returned = "none"
    /\ LET r == PostExecuteBody(executionId, workflow, runData, userId)
       IN  /\ args' = Some([executionId |-> executionId, workflow |-> workflow,
                            runData |-> runData, userId |-> userId])
           /\ issued' = r.calls
           /\ settled' = [i \in DOMAIN r.calls |-> "pending"]
           /\ console' = r.console
           /\ returned' = r.outcome
    /\ UNCHANGED <<stopVars, userVars, pinVars>>

\* The promise of issued[i] settles; a promise already settled stays so.
Settle(i, outcome) ==
    /\ i \in DOMAIN settled
    /\ settled[i] = "pending"
    /\ settled' = [settled EXCEPT ![i] = outcome]
    /\ returned' = IF returned = "pending" THEN PromiseAll(settled') ELSE returned
    /\ UNCHANGED <<args, issued, console, stopVars, userVars, pinVars>>

InitPost ==
    /\ args = None
    /\ issued = <<>>
    /\ settled = <<>>
    /\ returned = "none"
    /\ console = <<>>

InitStopIdle ==
    /\ now = 0
    /\ timeoutPromise = "none"
    /\ trackStop = "none"
    /\ stopReturned = "none"

InitUserIdle ==
    /\ hookArgs = None
    /\ tracked = <<>>

InitPinIdle ==
    /\ pinDataSize = 0
    /\ pinCall = None
    /\ pinResult = None
    /\ shownErrors = <<>>

Init == InitPost /\ InitStopIdle /\ InitUserIdle /\ InitPinIdle

PostExecute ==
    /\ returned = "none"
    /\ \E e \in ExecutionIds, w \in Workflows, r \in RunDatas, u \in UserIds :
          onWorkflowPostExecute(e, w, r, u)

SettleIssued == \E i \in 1..3, o \in {"resolved", "rejected"} : Settle(i, o)

Next == PostExecute \/ SettleIssued

Spec == Init /\ [][Next]_vars

-----------------------------------------------------------------------------
(* Properties of onWorkflowPostExecute *)

Called == args # None
CalledWithId == Called /\ TruthyStr(args[1].workflow.id)
CallsOf(fn) == {i \in DOMAIN issued : issued[i].fn = fn}
ArgIsManual == args[1].runData # None /\ args[1].runData[1].mode = "manual"
ArgFinished == args[1].runData # None /\ TruthyBool(args[1].runData[1].finished)
ArgError == IF args[1].runData = None THEN None
            ELSE args[1].runData[1].data.resultData.error
ArgDestination ==
    IF args[1].runData = None \/ args[1].runData[1].data.startData = None
    THEN None
    ELSE args[1].runData[1].data.startData[1].destinationNode

\* C2: the promise returned by onWorkflowPostExecute never rejects, whatever
\* fails inside it.
C2_NeverRejects == returned # "rejected"

\* C3: a call whose workflow has an id issues trackWorkflowExecution exactly
\* once and persistBinaryDataForExecutionId(executionId) exactly once.
C3_TrackAndPersistOnce ==
    CalledWithId =>
        /\ Cardinality(CallsOf("trackWorkflowExecution")) = 1
        /\ Cardinality(CallsOf("persistBinaryDataForExecutionId")) = 1
        /\ \A i \in CallsOf("persistBinaryDataForExecutionId") :
              issued[i].props.executionId = args[1].executionId

\* C6: a call whose workflow.id is falsy resolves and has no effect: no
\* telemetry call, no persistBinaryDataForExecutionId call.
C6_NoIdNoEffect ==
    (Called /\ ~TruthyStr(args[1].workflow.id)) =>
        /\ issued = <<>>
        /\ returned = "resolved"

C6_Witness ==
    /\ Called
    /\ args[1].workflow.id = Some("")
    /\ ArgIsManual
    /\ args[1].userId # None
    /\ Len(args[1].workflow.nodes) > 0
    /\ returned = "resolved"

\* C7: a manual-execution event is tracked iff runData is present with mode
\* 'manual', and then exactly one: 'Manual node exec finished' when a
\* destination node is set, else 'Manual workflow exec finished'; its status
\* is 'success' exactly when runData.finished is truthy.
C7_ManualEventIffManual ==
    CalledWithId =>
        /\ Cardinality(CallsOf("track")) = (IF ArgIsManual THEN 1 ELSE 0)
        /\ \A i \in CallsOf("track") :
              /\ issued[i].event = IF TruthyStr(ArgDestination)
                                   THEN "Manual node exec finished"
                                   ELSE "Manual workflow exec finished"
              /\ issued[i].props["status"] =
                    IF ArgFinished THEN "success" ELSE "failed"

ErrorKeys == {"error_message", "error_node_type", "error_node_id",
              "node_graph", "node_graph_string"}

\* C8: in the properties given to trackWorkflowExecution, success is true iff
\* runData is present and finished is truthy, is_manual iff runData is present
\* with mode 'manual'; a successful run carries no error_* / node_graph* key,
\* and node_graph is present only for a manual run that failed with an error.
C8_ExecutionProperties ==
    \A i \in CallsOf("trackWorkflowExecution") :
        LET p == issued[i].props
        IN  /\ p["success"] = ArgFinished
            /\ p["is_manual"] = ArgIsManual
            /\ p["success"] => DOMAIN p \cap ErrorKeys = {}
            /\ "node_graph" \in DOMAIN p =>
                  ArgIsManual /\ ~ArgFinished /\ ArgError # None

C8_Witness ==
    \E i \in CallsOf("trackWorkflowExecution") :
        /\ issued[i].props["success"]
        /\ issued[i].props["is_manual"]
        /\ ArgError # None

\* C9: for a failed run with resultData.error, error_node_type is the type of
\* the last executed node when lastNodeExecuted names a node of the workflow
\* and the type of error.node otherwise; error_node_id is set only for a
\* manual run and is the node-graph index of the chosen node's name.
C9_ErrorNode ==
    \A i \in CallsOf("trackWorkflowExecution") :
        (args[1].runData # None /\ ~ArgFinished /\ ArgError # None) =>
        LET p == issued[i].props
            nodes == args[1].workflow.nodes
            last == args[1].runData[1].data.resultData.lastNodeExecuted
            named == {k \in DOMAIN nodes : last # None /\ nodes[k].name = last[1]}
            ofError == ArgError[1].node
            chosenName == IF named # {} THEN last
                          ELSE IF ofError = None THEN None
                          ELSE Some(ofError[1].name)
            at == {k \in DOMAIN nodes :
                     chosenName # None /\ nodes[k].name = chosenName[1]}
        IN  /\ \/ /\ named # {}
                  /\ \E k \in named : p["error_node_type"] = Some(nodes[k].type)
               \/ /\ named = {}
                  /\ p["error_node_type"] =
                        (IF ofError = None THEN None ELSE Some(ofError[1].type))
            /\ "error_node_id" \in DOMAIN p =>
                  /\ ArgIsManual
                  /\ chosenName # None
                  /\ \/ at = {} /\ p["error_node_id"] = None
                     \/ \E k \in at : p["error_node_id"] = Some(k - 1)

C9_Witness ==
    \E i \in CallsOf("trackWorkflowExecution") :
        /\ args[1].runData # None /\ ~ArgFinished /\ ArgError # None
        /\ ArgError[1].node # None
        /\ args[1].runData[1].data.resultData.lastNodeExecuted = Some("B")
        /\ ArgError[1].node[1].name = "A"
        /\ issued[i].props["error_node_type"] = Some(WEBHOOK_NODE_TYPE)
        /\ "error_node_id" \in DOMAIN issued[i].props
        /\ issued[i].props["error_node_id"] = Some(1)

-----------------------------------------------------------------------------
(* InternalHooksClass.onN8nStop *)

\* setTimeout(..., 3000)
STOP_TIMEOUT_MS == 3000

Settled == {"resolved", "rejected"}

\* Mutant: Promise.all in place of Promise.race.
AllOfTwo(current, timer, track) ==
    IF current # "pending" THEN current
    ELSE IF track = "rejected" THEN "rejected"
    ELSE IF timer = "resolved" /\ track = "resolved" THEN "resolved"
    ELSE "pending"

\* Promise.race([timeoutPromise, trackN8nStop()]) after one of the two has
\* settled: a race already settled keeps its outcome, otherwise it takes the
\* outcome of the promise that settled.
PromiseRace(current, timer, track) ==
    IF current # "pending" THEN current
    ELSE IF timer # "pending" THEN timer
    ELSE track

\* The call: the timer is armed, trackN8nStop is started, the race is returned.
onN8nStop ==
    /\ stopReturned = "none"
    /\ now' = 0
    /\ timeoutPromise' = "pending"
    /\ trackStop' = "pending"
    /\ stopReturned' = "pending"
    /\ UNCHANGED <<postVars, userVars, pinVars>>

\* Time passes.
Tick ==
    /\ stopReturned # "none"
    /\ now < MaxTicks * TickMs
    /\ now' = now + TickMs
    /\ UNCHANGED <<timeoutPromise, trackStop, stopReturned,
                   postVars, userVars, pinVars>>

\* The timer callback runs, no earlier than 3000 ms after the call, and
\* resolves timeoutPromise.
TimerFires ==
    /\ timeoutPromise = "pending"
    /\ now >= STOP_TIMEOUT_MS
    /\ timeoutPromise' = "resolved"
    /\ stopReturned' = PromiseRace(stopReturned, timeoutPromise', trackStop)
    /\ UNCHANGED <<now, trackStop, postVars, userVars, pinVars>>

\* telemetry.trackN8nStop() settles; nothing obliges it to.
TrackStopSettles(outcome) ==
    /\ trackStop = "pending"
    /\ trackStop' = outcome
    /\ stopReturned' = PromiseRace(stopReturned, timeoutPromise, trackStop')
    /\ UNCHANGED <<now, timeoutPromise, postVars, userVars, pinVars>>

TrackStopEnds == \E o \in Settled : TrackStopSettles(o)

InitStop == InitPost /\ InitStopIdle /\ InitUserIdle /\ InitPinIdle

NextStop == onN8nStop \/ Tick \/ TimerFires \/ TrackStopEnds

\* The event loop lets time pass and runs a timer that is due; no fairness
\* is assumed of telemetry.trackN8nStop().
StopSpec ==
    InitStop /\ [][NextStop]_vars /\ WF_vars(Tick) /\ WF_vars(TimerFires)

\* C1: onN8nStop is a race of the 3000 ms timer and trackN8nStop(): it is
\* pending exactly while both are pending, so it never waits for
\* trackN8nStop once the timer has fired, and every call eventually settles,
\* also when trackN8nStop never does.
C1_StopRace ==
    /\ [](stopReturned # "none" =>
            (stopReturned = "pending" <=>
                (timeoutPromise = "pending" /\ trackStop = "pending")))
    /\ (stopReturned = "pending") ~> (stopReturned \in Settled)

C1_Witness ==
    /\ trackStop = "pending"
    /\ timeoutPromise = "resolved"
    /\ stopReturned = "resolved"
    /\ now >= STOP_TIMEOUT_MS

-----------------------------------------------------------------------------
(* snakeCase (package change-case) on strings given as character sequences *)

LowerLetters == <<"a", "b", "c", "d", "e", "f", "g", "h", "i", "j", "k", "l", "m", "n", "o", "p", "q", "r", "s", "t", "u", "v", "w", "x", "y", "z">>
UpperLetters == <<"A", "B", "C", "D", "E", "F", "G", "H", "I", "J", "K", "L", "M", "N", "O", "P", "Q", "R", "S", "T", "U", "V", "W", "X", "Y", "Z">>
Digits == {"0", "1", "2", "3", "4", "5", "6", "7", "8", "9"}

Range(f) == {f[i] : i \in DOMAIN f}
IsLower(c) == c \in Range(LowerLetters)
IsUpper(c) == c \in Range(UpperLetters)
IsAlnum(c) == IsLower(c) \/ IsUpper(c) \/ c \in Digits

\* lowerCase of one character.
ToLower(c) ==
    IF IsUpper(c)
    THEN LowerLetters[CHOOSE i \in DOMAIN UpperLetters : UpperLetters[i] = c]
    ELSE c

\* A word boundary lies between s[i] and s[i+1]: a lower-case letter or digit
\* followed by an upper-case letter, or an upper-case letter followed by an
\* upper-case letter and a lower-case one.
WordBoundary(s, i) ==
    \/ (IsLower(s[i]) \/ s[i] \in Digits) /\ IsUpper(s[i + 1])
    \/ IsUpper(s[i]) /\ IsUpper(s[i + 1]) /\ i + 2 <= Len(s) /\ IsLower(s[i + 2])

RECURSIVE SnakeFrom(_, _, _)
SnakeFrom(s, i, out) ==
    IF i > Len(s) THEN out
    ELSE IF ~IsAlnum(s[i]) THEN SnakeFrom(s, i + 1, out)
    ELSE LET sep == /\ out # <<>>
                    /\ i > 1
                    /\ (~IsAlnum(s[i - 1]) \/ WordBoundary(s, i - 1))
         IN  SnakeFrom(s, i + 1,
                       out \o (IF sep THEN <<"_">> ELSE <<>>) \o <<ToLower(s[i])>>)

\* The words of the input, lower-cased and joined by "_".
snakeCase(s) == SnakeFrom(s, 1, <<>>)

-----------------------------------------------------------------------------
(* InternalHooksClass.onUserDeletion and onPersonalizationSurveySubmitted *)

K_user_id == <<"u", "s", "e", "r", "_", "i", "d">>
K_public_api == <<"p", "u", "b", "l", "i", "c", "_", "a", "p", "i">>
K_target_user_id == <<"t", "a", "r", "g", "e", "t", "_", "u", "s", "e", "r", "_", "i", "d">>
K_migration_strategy == <<"m", "i", "g", "r", "a", "t", "i", "o", "n", "_", "s", "t", "r", "a", "t", "e", "g", "y">>

HookUserIds == {"u1", "u2"}

\* ITelemetryUserDeletionData objects: any subset of the keys, any values.
DeletionKeys == {K_user_id, K_target_user_id, K_migration_strategy}
DeletionDatas ==
    UNION {[ks -> {"u1", "u2"}] : ks \in SUBSET DeletionKeys}

\* Survey answers in insertion order: [key, value] pairs with distinct keys.
AnswerKeys == { <<"u", "s", "e", "r", "I", "d">>,
                <<"u", "s", "e", "r", "_", "i", "d">>,
                <<"w", "o", "r", "k", "A", "r", "e", "a">>,
                <<"r", "o", "l", "e">> }
AnswerPairs == [key : AnswerKeys, value : {"u2", "sales"}]
Answers ==
    {a \in SeqsUpTo(AnswerPairs, MaxAnswers) :
        \A i, j \in DOMAIN a : a[i].key = a[j].key => i = j}

\* { ...userDeletionData, user_id: userId, public_api: publicApi }
UserDeletionPayload(userId, userDeletionData, publicApi) ==
    (K_public_api :> publicApi) @@ (K_user_id :> userId) @@ userDeletionData

\* camelCaseKeys.forEach(k => data[snakeCase(k)] = answers[k]), from the
\* i-th answer on.
RECURSIVE SurveyFrom(_, _, _)
SurveyFrom(answers, i, data) ==
    IF i > Len(answers) THEN data
    ELSE SurveyFrom(answers, i + 1,
                    SetKey(data, snakeCase(answers[i].key), answers[i].value))

\* personalizationSurveyData: { user_id: userId } and then the answers.
PersonalizationSurveyData(userId, answers) ==
    SurveyFrom(answers, 1, (K_user_id :> userId))

onUserDeletion(userId, userDeletionData, publicApi) ==
    /\ hookArgs' = Some([hook |-> "onUserDeletion", userId |-> userId,
                         rest |-> <<userDeletionData, publicApi>>])
    /\ tracked' = <<[event |-> "User deleted user",
                     payload |-> UserDeletionPayload(userId, userDeletionData,
                                                     publicApi)]>>
    /\ UNCHANGED <<postVars, stopVars, pinVars>>

onPersonalizationSurveySubmitted(userId, answers) ==
    /\ hookArgs' = Some([hook |-> "onPersonalizationSurveySubmitted",
                         userId |-> userId, rest |-> <<answers>>])
    /\ tracked' = <<[event |-> "User responded to personalization questions",
                     payload |-> PersonalizationSurveyData(userId, answers)]>>
    /\ UNCHANGED <<postVars, stopVars, pinVars>>

UserDeletion ==
    /\ hookArgs = None
    /\ \E u \in HookUserIds, d \in DeletionDatas, a \in BOOLEAN :
          onUserDeletion(u, d, a)

SurveySubmitted ==
    /\ hookArgs = None
    /\ \E u \in HookUserIds, a \in Answers :
          onPersonalizationSurveySubmitted(u, a)

InitUser == InitPost /\ InitStopIdle /\ InitUserIdle /\ InitPinIdle

NextUser == UserDeletion \/ SurveySubmitted

UserSpec == InitUser /\ [][NextUser]_vars

\* C5: in the payloads of 'User deleted user' and 'User responded to
\* personalization questions', user_id equals the userId argument of the hook.
C5_UserIdIsArgument ==
    \A i \in DOMAIN tracked :
        tracked[i].payload[K_user_id] = hookArgs[1].userId

-----------------------------------------------------------------------------
(* pinData mixin: isValidPinDataJSON, isValidPinDataSize, isValidPinData *)

\* 12 MB
MAX_WORKFLOW_PINNED_DATA_SIZE == 1024 * 1024 * 12

\* The characters of a pin-data string; "U+00E9" stands for the character
\* e-acute, which takes two bytes in UTF-8.
QUOTE == "\""
PinChars == {"[", "]", ",", "1", QUOTE, "U+00E9"}
PinStrings == SeqsUpTo(PinChars, MaxLen)

\* Sizes already pinned in the workflow: none, or close to the maximum.
PinnedSizes ==
    {0} \cup ((MAX_WORKFLOW_PINNED_DATA_SIZE - 4)..MAX_WORKFLOW_PINNED_DATA_SIZE)

Utf8Bytes(c) == IF c = "U+00E9" THEN 2 ELSE 1

\* stringSizeInBytes (@/components/helpers): the size of the string in UTF-8.
RECURSIVE stringSizeInBytes(_)
stringSizeInBytes(data) ==
    IF data = <<>> THEN 0
    ELSE Utf8Bytes(Head(data)) + stringSizeInBytes(Tail(data))

\* JSON.parse accepts the text: it is a number, a string or an array of
\* values, by the JSON grammar restricted to PinChars.
IsJSONNumber(s) == Len(s) >= 1 /\ \A i \in DOMAIN s : s[i] = "1"
IsJSONString(s) ==
    /\ Len(s) >= 2
    /\ s[1] = QUOTE
    /\ s[Len(s)] = QUOTE
    /\ \A i \in 2..(Len(s) - 1) : s[i] # QUOTE

RECURSIVE IsJSONValue(_), IsJSONElements(_)
IsJSONValue(s) ==
    \/ IsJSONNumber(s)
    \/ IsJSONString(s)
    \/ /\ Len(s) >= 2
       /\ s[1] = "["
       /\ s[Len(s)] = "]"
       /\ (Len(s) = 2 \/ IsJSONElements(SubSeq(s, 2, Len(s) - 1)))
IsJSONElements(s) ==
    \/ IsJSONValue(s)
    \/ \E k \in DOMAIN s :
          /\ s[k] = ","
          /\ IsJSONValue(SubSeq(s, 1, k - 1))
          /\ IsJSONElements(SubSeq(s, k + 1, Len(s)))

JSONParses(data) == IsJSONValue(data)

InvalidJSONError ==
    [title |-> "runData.editOutputInvalid", error |-> "SyntaxError"]
TooLargeError ==
    [title |-> "ndv.pinData.error.tooLarge.title",
     error |-> "ndv.pinData.error.tooLarge.description"]

\* try { JSON.parse(data); return true } catch { $showError(...); return false }
ValidPinDataJSON(data) ==
    IF JSONParses(data)
    THEN [ok |-> TRUE, errors |-> <<>>]
    ELSE [ok |-> FALSE, errors |-> <<InvalidJSONError>>]

\* Mutant: a total equal to the maximum is rejected (>= for >).
ValidPinDataSizeStrict(size, data) ==
    IF size + stringSizeInBytes(data) >= MAX_WORKFLOW_PINNED_DATA_SIZE
    THEN [ok |-> FALSE, errors |-> <<TooLargeError>>]
    ELSE [ok |-> TRUE, errors |-> <<>>]

\* if (pinDataSize + stringSizeInBytes(data) > MAX) { $showError(...); return false }
ValidPinDataSize(size, data) ==
    IF size + stringSizeInBytes(data) > MAX_WORKFLOW_PINNED_DATA_SIZE
    THEN [ok |-> FALSE, errors |-> <<TooLargeError>>]
    ELSE [ok |-> TRUE, errors |-> <<>>]

\* Mutant: both checks are evaluated (& for &&).
ValidPinDataBoth(size, data) ==
    LET json == ValidPinDataJSON(data)
        fits == ValidPinDataSize(size, data)
    IN  [ok |-> json.ok /\ fits.ok, errors |-> json.errors \o fits.errors]

\* isValidPinDataJSON(data) && isValidPinDataSize(data)
ValidPinData(size, data) ==
    LET json == ValidPinDataJSON(data)
        fits == ValidPinDataSize(size, data)
    IN  IF ~json.ok THEN json
        ELSE [ok |-> fits.ok, errors |-> json.errors \o fits.errors]

PinReturn(method, data, r) ==
    /\ pinCall' = Some([method |-> method, data |-> data])
    /\ pinResult' = Some(r.ok)
    /\ shownErrors' = r.errors
    /\ UNCHANGED <<pinDataSize, postVars, stopVars, userVars>>

isValidPinDataJSON(data) ==
    PinReturn("isValidPinDataJSON", data, ValidPinDataJSON(data))

isValidPinDataSize(data) ==
    PinReturn("isValidPinDataSize", data, ValidPinDataSize(pinDataSize, data))

isValidPinData(data) ==
    PinReturn("isValidPinData", data, ValidPinData(pinDataSize, data))

\* One call of a method is followed: the mixin keeps no state between calls.
CheckJSON == pinCall = None /\ \E d \in PinStrings : isValidPinDataJSON(d)
CheckSize == pinCall = None /\ \E d \in PinStrings : isValidPinDataSize(d)
CheckPinData == pinCall = None /\ \E d \in PinStrings : isValidPinData(d)

InitPin ==
    /\ InitPost /\ InitStopIdle /\ InitUserIdle
    /\ pinDataSize \in PinnedSizes
    /\ pinCall = None
    /\ pinResult = None
    /\ shownErrors = <<>>

NextPin == CheckJSON \/ CheckSize \/ CheckPinData

PinSpec == InitPin /\ [][NextPin]_vars

PinDataCalled == pinCall # None /\ pinCall[1].method = "isValidPinData"
PinTotal == pinDataSize + stringSizeInBytes(pinCall[1].data)

\* C4: isValidPinData(data) returns true iff data parses as JSON and
\* pinDataSize + stringSizeInBytes(data) <= MAX_WORKFLOW_PINNED_DATA_SIZE.
C4_ValidIffJSONAndFits ==
    PinDataCalled =>
        pinResult = Some(JSONParses(pinCall[1].data)
                         /\ PinTotal <= MAX_WORKFLOW_PINNED_DATA_SIZE)

C4_Witness ==
    /\ PinDataCalled
    /\ pinDataSize > 0
    /\ PinTotal = MAX_WORKFLOW_PINNED_DATA_SIZE
    /\ stringSizeInBytes(pinCall[1].data) > Len(pinCall[1].data)
    /\ pinResult = Some(TRUE)

\* C10: isValidPinData shows exactly one error when it returns false and none
\* when it returns true; data that does not parse shows only the invalid-JSON
\* error, also when it is too large.
C10_OneErrorJSONFirst ==
    PinDataCalled =>
        /\ pinResult = Some(TRUE) => shownErrors = <<>>
        /\ pinResult = Some(FALSE) => Len(shownErrors) = 1
        /\ ~JSONParses(pinCall[1].data) =>
              shownErrors = <<InvalidJSONError>>
        /\ (JSONParses(pinCall[1].data) /\ pinResult = Some(FALSE)) =>
              shownErrors = <<TooLargeError>>

C10_Witness ==
    /\ PinDataCalled
    /\ ~JSONParses(pinCall[1].data)
    /\ PinTotal > MAX_WORKFLOW_PINNED_DATA_SIZE
    /\ pinResult = Some(FALSE)
    /\ shownErrors = <<InvalidJSONError>>

====
